---- MODULE Spec2Model ----
(***************************************************************************)
(* TCP "Linear BBR" congestion control, net/ipv4/tcp_lbbr.c.               *)
(*                                                                         *)
(* One flow.  The host stack calls lbbr_init once and then lbbr_main       *)
(* (the cong_control hook) once per rate sample.  The state is the private *)
(* struct lbbr plus the tcp_sock / sock fields the module reads and        *)
(* writes.                                                                 *)
(*                                                                         *)
(* Number representation.  TLC integers are 32-bit signed, so every        *)
(* quantity of the model is kept below 2^31 by the choice of inputs; in    *)
(* that range the u32 truncations and the u64 products of the C code do    *)
(* not wrap, and the products are evaluated exactly by MulShr below.  The  *)
(* one u32 value above the range, ~0U, is held as MIN_RTT_UNKNOWN and      *)
(* compared through RttLe.  The narrow bit-fields (cur_cnt:8,              *)
(* full_bw_count:3) are reduced modulo their width where the code          *)
(* increments them.                                                        *)
(*                                                                         *)
(* The two pure calculations whose C types matter (lbbr_target_cwnd and    *)
(* lbbr_bw_to_pacing_rate) are modelled a second time at full width, on    *)
(* numbers held as sequences of base-256 digits, least significant first:  *)
(* 4 digits for a u32, 8 for a u64.  The variable calc holds one such call *)
(* with its result and the value the unbounded formula gives.              *)
(***************************************************************************)
EXTENDS Integers, Sequences, FiniteSets, TLC

\* ------------------------------------------------------------------------
\* Program constants
\* ------------------------------------------------------------------------
BW_SCALE == 24
BW_UNIT == 16777216
LBBR_SCALE == 8
LBBR_UNIT == 256
LBBR_INCREASE == "INCREASE"
LBBR_DECREASE == "DECREASE"
lbbr_bw_rtts == 10
lbbr_startup_gain == (LBBR_UNIT * 2885) \div 1000 + 1
lbbr_cwnd_gain == LBBR_UNIT * 2
lbbr_full_bw_thresh == (LBBR_UNIT * 5) \div 4
lbbr_full_bw_count == 3
lbbr_alpha == 8
TCP_INIT_CWND == 10
TCP_INFINITE_SSTHRESH == 2147483647
USEC_PER_SEC == 1000000
USEC_PER_MSEC == 1000
\* ~0U, the "no RTT sample yet" value of tcp_min_rtt(); held as the two's
\* complement image of the all-ones word.
MIN_RTT_UNKNOWN == -1
\* tcp_mss_to_mtu(sk, tp->mss_cache) for the flow: a flow constant.
Mtu == 1500

\* ------------------------------------------------------------------------
\* Bounds of the model
\* ------------------------------------------------------------------------
\* rtt_cnt is capped: a sample that would open round MaxRounds + 1 is not fed.
MaxRounds == 1
\* jiffies is capped.
MaxJiffies == 1
\* snd_cwnd_cnt is capped where the window can stay 0: a sample that would
\* take it above is not fed.
MaxCwndCnt == 24

\* ------------------------------------------------------------------------
\* Data layout
\* ------------------------------------------------------------------------
\* struct rate_sample, the fields the module reads.
RateSample(delivered, interval_us, prior_delivered, rtt_us, is_app_limited, acked_sacked) ==
    [delivered |-> delivered, interval_us |-> interval_us,
     prior_delivered |-> prior_delivered, rtt_us |-> rtt_us,
     is_app_limited |-> is_app_limited, acked_sacked |-> acked_sacked]

\* struct minmax_sample and minmax_reset of lib/win_minmax.c.
minmax_sample(t, v) == [t |-> t, v |-> v]

minmax_reset(t, meas) ==
    <<minmax_sample(t, meas), minmax_sample(t, meas), minmax_sample(t, meas)>>

\* lbbr_init, lines 375-399, on a socket the host has set up.  The private
\* area is zeroed by the host when the algorithm is assigned, which is where
\* next_rtt_delivered (not set by lbbr_init) gets its 0.
lbbr_init(min_rtt, now) ==
    [min_rtt_us |-> min_rtt,
     min_rtt_stamp |-> now,
     bw |-> minmax_reset(0, 0),
     max_bw |-> 0,
     ssthresh |-> TCP_INFINITE_SSTHRESH,
     next_rtt_delivered |-> 0,
     rtt_cnt |-> 0,
     full_bw |-> 0,
     prev_cwnd |-> 0,
     full_bw_count |-> 0,
     pacing_gain |-> lbbr_startup_gain,
     cwnd_gain |-> lbbr_startup_gain,
     cur_cnt |-> 0,
     has_seen_rtt |-> 0,
     mode |-> LBBR_INCREASE]

\* The fields of struct tcp_sock and struct sock the module uses.
TcpSock(delivered, snd_cwnd, snd_cwnd_cnt, snd_cwnd_clamp, srtt_us) ==
    [delivered |-> delivered, snd_cwnd |-> snd_cwnd,
     snd_cwnd_cnt |-> snd_cwnd_cnt, snd_cwnd_clamp |-> snd_cwnd_clamp,
     srtt_us |-> srtt_us]

Sock(sk_pacing_rate, sk_max_pacing_rate) ==
    [sk_pacing_rate |-> sk_pacing_rate,
     sk_max_pacing_rate |-> sk_max_pacing_rate]

\* Observations kept beside the program state:
\*   pacing_bw, cwnd_bw  the bandwidth arguments of the two control calls
\*   entry_cwnd          the window the latest switch to DECREASE was made from
\*   rtt_floor           the minimum of the seed and of the valid RTT samples
\*   stall_run           the current run of samples without growth, up to 3
\*   calls               1 once a call of lbbr_main has returned
\*   switches            the assignments to mode made by the latest call
\*   counted             what the latest call added to snd_cwnd_cnt
\*   zero_div            the latest call divided by a window of 0
\*   seeds               the calls of lbbr_init_pacing_rate_from_rtt, up to 2
\*   seen_before         has_seen_rtt as the latest call found it
ObsInit(min_rtt) ==
    [pacing_bw |-> 0, cwnd_bw |-> 0, entry_cwnd |-> 0,
     rtt_floor |-> min_rtt, stall_run |-> 0, calls |-> 0,
     switches |-> 0, counted |-> 0, zero_div |-> FALSE, seeds |-> 0,
     seen_before |-> 0]

\* The observations of one call, cleared when lbbr_main is entered.
ObsCall(c) ==
    [c EXCEPT !.obs.switches = 0, !.obs.counted = 0, !.obs.zero_div = FALSE,
              !.obs.seen_before = c.lbbr.has_seen_rtt]

\* What a call of lbbr_main works on.
Context(lbbr, tp, sk, jiffies, build, crashed, obs) ==
    [lbbr |-> lbbr, tp |-> tp, sk |-> sk, jiffies |-> jiffies,
     build |-> build, crashed |-> crashed, obs |-> obs]

\* ------------------------------------------------------------------------
\* Arithmetic helpers
\* ------------------------------------------------------------------------
Min(a, b) == IF a <= b THEN a ELSE b
Max(a, b) == IF a >= b THEN a ELSE b

RECURSIVE Pow2(_)
Pow2(n) == IF n = 0 THEN 1 ELSE 2 * Pow2(n - 1)

\* (a * b) >> s in 64-bit arithmetic, for the two shifts of the code, split
\* so that no intermediate exceeds the 32-bit range of TLC:
\*   s = LBBR_SCALE  a = ah * 2^8 + al,   b a gain below 2^10
\*   s = BW_SCALE    b = bh * 2^10 + bl,  a below 2^21, b below 2^20
MulShr(a, b, s) ==
    IF s = 8
    THEN (a \div 256) * b + ((a % 256) * b) \div 256
    ELSE (a * (b \div 1024) + (a * (b % 1024)) \div 1024) \div Pow2(s - 10)

\* a <= b for two u32 min-RTT values: ~0U is above every other value.
RttLe(a, b) ==
    IF b = MIN_RTT_UNKNOWN THEN TRUE
    ELSE IF a = MIN_RTT_UNKNOWN THEN FALSE
    ELSE a <= b

RttMin(a, b) == IF RttLe(a, b) THEN a ELSE b

\* Sequencing: Only({e : x \in {v}}) is e with x bound to the value of v.
\* v is evaluated once, as a C statement is executed once, however often e
\* reads the result.
Only(S) == CHOOSE r \in S : TRUE

\* ------------------------------------------------------------------------
\* Pure functions of the module.  c is the context: [lbbr, tp, sk, ...].
\* ------------------------------------------------------------------------
lbbr_full_bw_reached(c) == c.lbbr.full_bw_count >= lbbr_full_bw_count

lbbr_max_bw(c) == c.lbbr.max_bw

lbbr_min_rtt(c) == c.lbbr.min_rtt_us

lbbr_rate_bytes_per_sec(c, rate, gain) ==
    LET r1 == MulShr(rate * Mtu, gain, LBBR_SCALE)
    IN  MulShr(r1, USEC_PER_SEC, BW_SCALE)

\* Mutant: the ceiling sk_max_pacing_rate is not applied.
lbbr_bw_to_pacing_rate_noceil(c, bw, gain) ==
    lbbr_rate_bytes_per_sec(c, bw, gain)

lbbr_bw_to_pacing_rate(c, bw, gain) ==
    Min(lbbr_rate_bytes_per_sec(c, bw, gain), c.sk.sk_max_pacing_rate)

\* Mutant: the unknown RTT ~0U is not set aside; it enters the product as the
\* signed image of the all-ones word.
lbbr_target_cwnd_noguard(c, bw, gain) ==
    LET w == bw * c.lbbr.min_rtt_us
    IN  (MulShr(w, gain, LBBR_SCALE) + BW_UNIT - 1) \div BW_UNIT

lbbr_target_cwnd(c, bw, gain) ==
    IF c.lbbr.min_rtt_us = MIN_RTT_UNKNOWN
    THEN TCP_INIT_CWND
    ELSE LET w == bw * c.lbbr.min_rtt_us
         IN  (MulShr(w, gain, LBBR_SCALE) + BW_UNIT - 1) \div BW_UNIT

lbbr_in_first_slow_start(c) == c.lbbr.ssthresh = TCP_INFINITE_SSTHRESH

\* ------------------------------------------------------------------------
\* The window and rate formulas over the whole range of their u32 and u64
\* operands.  A wide unsigned integer is the sequence of its base-256
\* digits, least significant first: 4 digits a u32, 8 digits a u64, WideLen
\* digits a value of unbounded arithmetic (every product of the formulas is
\* below 2^80).  An operation keeps the number of digits of its first
\* operand, which is the wraparound of the C type.
\* ------------------------------------------------------------------------
WideLen == 12

RECURSIVE ToWide(_, _)
ToWide(n, len) ==
    IF len = 0 THEN <<>> ELSE <<n % 256>> \o ToWide(n \div 256, len - 1)

\* ~0U
U32_MAX == <<255, 255, 255, 255>>

\* (type)a: zero extension or truncation to len digits.
WCast(a, len) ==
    [i \in 1..len |-> IF i <= Len(a) THEN a[i] ELSE 0]

\* a * k + carry for an int k below 2^20.
RECURSIVE WMulInt(_, _, _)
WMulInt(a, k, carry) ==
    IF a = <<>> THEN <<>>
    ELSE LET p == a[1] * k + carry
         IN  <<p % 256>> \o WMulInt(Tail(a), k, p \div 256)

\* a + b + carry, b of the length of a.
RECURSIVE WAdd(_, _, _)
WAdd(a, b, carry) ==
    IF a = <<>> THEN <<>>
    ELSE LET p == a[1] + b[1] + carry
         IN  <<p % 256>> \o WAdd(Tail(a), Tail(b), p \div 256)

\* a >> (8 * n) and a << (8 * n).
WShr(a, n) == [i \in 1..Len(a) |-> IF i + n <= Len(a) THEN a[i + n] ELSE 0]
WShl(a, n) == [i \in 1..Len(a) |-> IF i > n THEN a[i - n] ELSE 0]

\* a * b.
RECURSIVE WMul(_, _)
WMul(a, b) ==
    IF b = <<>> THEN WCast(<<>>, Len(a))
    ELSE WAdd(WMulInt(a, b[1], 0), WShl(WMul(a, Tail(b)), 1), 0)

\* a < b, for a and b of one length.
RECURSIVE WLess(_, _)
WLess(a, b) ==
    IF a = <<>> THEN FALSE
    ELSE LET n == Len(a)
         IN  IF a[n] # b[n] THEN a[n] < b[n]
             ELSE WLess(SubSeq(a, 1, n - 1), SubSeq(b, 1, n - 1))

WMin(a, b) == IF WLess(b, a) THEN b ELSE a

\* Lines 155-173 on u32 bw and min_rtt_us: the product w and w * gain are
\* u64, the result is stored in the u32 cwnd.
lbbr_target_cwnd_u64(bw, min_rtt_us, gain) ==
    IF min_rtt_us = U32_MAX
    THEN ToWide(TCP_INIT_CWND, 4)
    ELSE LET w == WMul(WCast(bw, 8), min_rtt_us)
             g == WShr(WMulInt(w, gain, 0), LBBR_SCALE \div 8)
             r == WShr(WAdd(g, ToWide(BW_UNIT - 1, 8), 0), BW_SCALE \div 8)
         IN  WCast(r, 4)

\* Lines 106-113: u64 rate, u32 return value.
lbbr_rate_bytes_per_sec_u64(rate, gain) ==
    LET r1 == WMulInt(WCast(rate, 8), Mtu, 0)
        r2 == WShr(WMulInt(r1, gain, 0), LBBR_SCALE \div 8)
        r3 == WMulInt(r2, USEC_PER_SEC, 0)
    IN  WCast(WShr(r3, BW_SCALE \div 8), 4)

\* Lines 115-122: the u32 value of lbbr_rate_bytes_per_sec is widened to
\* u64 again for min_t against the u32 sk_max_pacing_rate.
lbbr_bw_to_pacing_rate_u64(bw, gain, sk_max_pacing_rate) ==
    LET rate == WCast(lbbr_rate_bytes_per_sec_u64(bw, gain), 8)
    IN  WCast(WMin(rate, WCast(sk_max_pacing_rate, 8)), 4)

\* The same formulas in unbounded arithmetic.
\* ceil(bw * min_rtt * gain / LBBR_UNIT / BW_UNIT)
ExactTargetCwnd(bw, min_rtt_us, gain) ==
    LET x == WMulInt(WMul(WCast(bw, WideLen), min_rtt_us), gain, 0)
        n == (LBBR_SCALE + BW_SCALE) \div 8
        q == WShr(x, n)
    IN  IF WCast(x, n) = WCast(<<>>, n) THEN q
        ELSE WAdd(q, ToWide(1, WideLen), 0)

\* bw * mtu * gain / LBBR_UNIT * USEC_PER_SEC / BW_UNIT, each division an
\* integer division.
ExactRate(bw, gain) ==
    LET r1 == WMulInt(WCast(bw, WideLen), Mtu, 0)
        r2 == WShr(WMulInt(r1, gain, 0), LBBR_SCALE \div 8)
        r3 == WMulInt(r2, USEC_PER_SEC, 0)
    IN  WShr(r3, BW_SCALE \div 8)


\* ------------------------------------------------------------------------
\* Undefined behaviour.  The outcome of a division by zero and of a shift
\* by 32 or more is the one of a build the kernel can be compiled for; each
\* call of lbbr_main is run under one of them (c.build):
\*   x86    integer division by zero traps (#DE, the kernel oopses);
\*          the shift count is taken modulo 32
\*   arm64  UDIV by zero yields 0; the shift count is taken modulo 32
\*   arm32  __div0 logs and the quotient is 0; LSL by 32..255 yields 0
\* ------------------------------------------------------------------------
Builds == {"x86", "arm64", "arm32"}

DivTraps(b) == b = "x86"

\* n / d as the build computes it when the call goes on (no trap).
Div(b, n, d) == IF d = 0 THEN 0 ELSE n \div d

\* min(1 << cnt, room) of lines 271-272, for room < 2^31.  1 << 31 is
\* 0x80000000 as u32, above every room of the model.
ShlMin(b, cnt, room) ==
    IF cnt < 31 THEN Min(Pow2(cnt), room)
    ELSE IF cnt = 31 THEN room
    ELSE IF b = "arm32" THEN 0
    ELSE IF cnt % 32 = 31 THEN room
    ELSE Min(Pow2(cnt % 32), room)

\* ------------------------------------------------------------------------
\* lib/win_minmax.c: the windowed max filter struct minmax, three samples
\* <<t, v>> (best, second best, third best).
\* ------------------------------------------------------------------------
minmax_subwin_update(m, win, val) ==
    LET dt == val.t - m[1].t
    IN  IF dt > win
        THEN LET m1 == <<m[2], m[3], val>>
             IN  IF val.t - m1[1].t > win THEN <<m1[2], m1[3], val>> ELSE m1
        ELSE IF m[2].t = m[1].t /\ dt > win \div 4
        THEN <<m[1], val, val>>
        ELSE IF m[3].t = m[2].t /\ dt > win \div 2
        THEN <<m[1], m[2], val>>
        ELSE m

minmax_running_max(m, win, t, meas) ==
    LET val == minmax_sample(t, meas)
    IN  IF val.v >= m[1].v \/ val.t - m[3].t > win
        THEN minmax_reset(t, meas)
        ELSE LET m1 == IF val.v >= m[2].v THEN <<m[1], val, val>>
                       ELSE IF val.v >= m[3].v THEN <<m[1], m[2], val>>
                       ELSE m
             IN  minmax_subwin_update(m1, win, val)

\* ------------------------------------------------------------------------
\* The model update
\* ------------------------------------------------------------------------
\* before(seq1, seq2) of net/tcp.h: (s32)(seq1 - seq2) < 0; the counters of
\* the model are far below 2^31, where this is seq1 < seq2.
before(seq1, seq2) == seq1 - seq2 < 0

\* Lines 288-291: the round tracker.
lbbr_round_start(c, rs) == ~before(rs.prior_delivered, c.lbbr.next_rtt_delivered)

lbbr_advance_round(c, rs) ==
    IF lbbr_round_start(c, rs)
    THEN [c EXCEPT !.lbbr.next_rtt_delivered = c.tp.delivered,
                   !.lbbr.rtt_cnt = @ + 1]
    ELSE c

\* Lines 300-303: the moving average that lbbr_max_bw reports.
lbbr_ewma(max_bw, bw) ==
    IF max_bw = 0 /\ bw # 0
    THEN bw
    ELSE (max_bw * (lbbr_alpha - 1)) \div lbbr_alpha + bw \div lbbr_alpha

lbbr_update_max_bw(c, rs) ==
    Only({
        IF rs.interval_us = 0 /\ DivTraps(c.build)
        THEN [c1 EXCEPT !.crashed = TRUE]
        ELSE LET bw == Div(c.build, rs.delivered * BW_UNIT, rs.interval_us)
                 filter == IF ~rs.is_app_limited \/ bw >= lbbr_max_bw(c1)
                           THEN minmax_running_max(c1.lbbr.bw, lbbr_bw_rtts,
                                                   c1.lbbr.rtt_cnt, bw)
                           ELSE c1.lbbr.bw
             IN  [c1 EXCEPT !.lbbr.bw = filter,
                            !.lbbr.max_bw = lbbr_ewma(@, bw)]
        : c1 \in {lbbr_advance_round(c, rs)}})

\* Mutant: the counter is reset once the pipe has been found full.
lbbr_check_full_bw_reached_unlatched(c, rs) ==
    IF rs.is_app_limited
    THEN c
    ELSE LET bw_thresh == MulShr(c.lbbr.full_bw, lbbr_full_bw_thresh, LBBR_SCALE)
         IN  IF lbbr_max_bw(c) >= bw_thresh
             THEN [c EXCEPT !.lbbr.full_bw = lbbr_max_bw(c),
                            !.lbbr.full_bw_count = 0]
             ELSE [c EXCEPT !.lbbr.full_bw_count = (@ + 1) % 8]

lbbr_check_full_bw_reached(c, rs) ==
    IF lbbr_full_bw_reached(c) \/ rs.is_app_limited
    THEN c
    ELSE LET bw_thresh == MulShr(c.lbbr.full_bw, lbbr_full_bw_thresh, LBBR_SCALE)
         IN  IF lbbr_max_bw(c) >= bw_thresh
             THEN [c EXCEPT !.lbbr.full_bw = lbbr_max_bw(c),
                            !.lbbr.full_bw_count = 0]
             ELSE [c EXCEPT !.lbbr.full_bw_count = (@ + 1) % 8]

\* Mutant: the filter takes every valid sample, also a larger one.
lbbr_update_min_rtt_latest(c, rs) ==
    IF rs.rtt_us >= 0
    THEN [c EXCEPT !.lbbr.min_rtt_us = rs.rtt_us,
                   !.lbbr.min_rtt_stamp = c.jiffies]
    ELSE c

lbbr_update_min_rtt(c, rs) ==
    IF rs.rtt_us >= 0 /\ RttLe(rs.rtt_us, c.lbbr.min_rtt_us)
    THEN [c EXCEPT !.lbbr.min_rtt_us = rs.rtt_us,
                   !.lbbr.min_rtt_stamp = c.jiffies]
    ELSE c

lbbr_update_model(c, rs) ==
    Only({
        IF c1.crashed THEN c1
        ELSE Only({lbbr_update_min_rtt(c2, rs)
                   : c2 \in {lbbr_check_full_bw_reached(c1, rs)}})
        : c1 \in {lbbr_update_max_bw(c, rs)}})

\* ------------------------------------------------------------------------
\* The control update
\* ------------------------------------------------------------------------
lbbr_init_pacing_rate_from_rtt(c) ==
    LET rtt_us == IF c.tp.srtt_us # 0
                  THEN Max(c.tp.srtt_us \div 8, 1)
                  ELSE USEC_PER_MSEC
        seen == IF c.tp.srtt_us # 0 THEN 1 ELSE c.lbbr.has_seen_rtt
        bw == (c.tp.snd_cwnd * BW_UNIT) \div rtt_us
    IN  [c EXCEPT !.lbbr.has_seen_rtt = seen,
                  !.sk.sk_pacing_rate =
                      lbbr_bw_to_pacing_rate(c, bw, lbbr_startup_gain),
                  !.obs.seeds = IF @ < 2 THEN @ + 1 ELSE @]

\* Mutant: the computed rate is stored whether or not it is higher.
lbbr_set_pacing_rate_always(c, bw, gain) ==
    LET rate == lbbr_bw_to_pacing_rate(c, bw, gain)
    IN  Only({[c1 EXCEPT !.sk.sk_pacing_rate = rate]
              : c1 \in {IF c.lbbr.has_seen_rtt = 0 /\ c.tp.srtt_us # 0
                        THEN lbbr_init_pacing_rate_from_rtt(c)
                        ELSE c}})

lbbr_set_pacing_rate(c, bw, gain) ==
    LET rate == lbbr_bw_to_pacing_rate(c, bw, gain)
    IN  Only({
            IF lbbr_full_bw_reached(c1) \/ rate > c1.sk.sk_pacing_rate
            THEN [c1 EXCEPT !.sk.sk_pacing_rate = rate]
            ELSE c1
            : c1 \in {IF c.lbbr.has_seen_rtt = 0 /\ c.tp.srtt_us # 0
                      THEN lbbr_init_pacing_rate_from_rtt(c)
                      ELSE c}})

\* Mutant: the gains and ssthresh are set on every sample with the pipe full.
lbbr_latch_gains_always(c) ==
    [c EXCEPT !.lbbr.cwnd_gain = lbbr_cwnd_gain,
              !.lbbr.pacing_gain = lbbr_cwnd_gain,
              !.lbbr.ssthresh = Max(c.tp.snd_cwnd \div 2, 2)]

\* Lines 236-240: the one-time latch on the first sample with the pipe full.
lbbr_latch_gains(c) ==
    IF lbbr_in_first_slow_start(c)
    THEN [c EXCEPT !.lbbr.cwnd_gain = lbbr_cwnd_gain,
                   !.lbbr.pacing_gain = lbbr_cwnd_gain,
                   !.lbbr.ssthresh = Max(c.tp.snd_cwnd \div 2, 2)]
    ELSE c

\* Lines 255-261: the switch to DECREASE once the window is above upper_cwnd.
\* obs.entry_cwnd records the window the switch was made from, obs.switches
\* counts the assignment to mode.
lbbr_enter_decrease(c, bw, upper_cwnd) ==
    IF c.tp.snd_cwnd > upper_cwnd
    THEN [c EXCEPT !.lbbr.mode = LBBR_DECREASE,
                   !.lbbr.prev_cwnd =
                       lbbr_target_cwnd(c, bw, (LBBR_UNIT * 80) \div 100),
                   !.lbbr.cur_cnt = 0,
                   !.obs.entry_cwnd = c.tp.snd_cwnd,
                   !.obs.switches = @ + 1]
    ELSE c

\* Lines 245-253: the jump to the unit-gain target and the additive increase,
\* one packet per window of ACKs.  obs.counted records the addition to
\* snd_cwnd_cnt (line 249), obs.zero_div a divisor of 0 (line 250).
lbbr_grow(c, acked, target_cwnd) ==
    Only({
        LET cnt == c1.tp.snd_cwnd_cnt + acked
            delta == Div(c.build, cnt, c1.tp.snd_cwnd)
        IN  IF c1.tp.snd_cwnd = 0 /\ DivTraps(c.build)
            THEN [c1 EXCEPT !.tp.snd_cwnd_cnt = cnt, !.crashed = TRUE,
                            !.obs.counted = @ + acked,
                            !.obs.zero_div = TRUE]
            ELSE [c1 EXCEPT
                    !.tp.snd_cwnd_cnt = cnt - delta * c1.tp.snd_cwnd,
                    !.tp.snd_cwnd = Min(c1.tp.snd_cwnd + delta,
                                        c1.tp.snd_cwnd_clamp),
                    !.obs.counted = @ + acked,
                    !.obs.zero_div = (c1.tp.snd_cwnd = 0)]
        : c1 \in {IF c.tp.snd_cwnd < target_cwnd
                  THEN [c EXCEPT !.tp.snd_cwnd =
                                     Min(target_cwnd, c.tp.snd_cwnd_clamp)]
                  ELSE c}})

\* Mutant: the window is never compared with upper_cwnd.
lbbr_set_cwnd_increase_noupper(c, acked, bw) ==
    lbbr_grow(c, acked, lbbr_target_cwnd(c, bw, LBBR_UNIT))

\* Lines 242-262: the INCREASE branch.
lbbr_set_cwnd_increase(c, acked, bw) ==
    LET target_cwnd == lbbr_target_cwnd(c, bw, LBBR_UNIT)
        upper_cwnd == lbbr_target_cwnd(c, bw, 2 * LBBR_UNIT)
    IN  Only({
            IF c1.crashed THEN c1
            ELSE lbbr_enter_decrease(c1, bw, upper_cwnd)
            : c1 \in {lbbr_grow(c, acked, target_cwnd)}})

\* Mutant: the step 1 << cur_cnt is not limited to the room above prev_cwnd
\* and the window stops at 1.
lbbr_set_cwnd_decrease_nofloor(c, acked) ==
    LET cnt == c.tp.snd_cwnd_cnt + acked
        delta == Div(c.build, cnt, c.tp.snd_cwnd)
        cur == (c.lbbr.cur_cnt + delta) % 256
        cwnd == IF delta > 0
                THEN Min(Max(c.tp.snd_cwnd
                             - ShlMin(c.build, cur, c.tp.snd_cwnd), 1),
                         c.tp.snd_cwnd_clamp)
                ELSE c.tp.snd_cwnd
    IN  [c EXCEPT !.tp.snd_cwnd_cnt = cnt - delta * c.tp.snd_cwnd,
                  !.lbbr.cur_cnt = IF delta > 0 THEN cur ELSE @,
                  !.tp.snd_cwnd = cwnd,
                  !.lbbr.mode = IF cwnd <= c.lbbr.prev_cwnd
                                THEN LBBR_INCREASE ELSE @]

\* Mutant: the step is 1 << cur_cnt whatever room is left above prev_cwnd.
lbbr_set_cwnd_decrease_unbounded(c, acked) ==
    LET cnt == c.tp.snd_cwnd_cnt + acked
        delta == Div(c.build, cnt, c.tp.snd_cwnd)
        cur == (c.lbbr.cur_cnt + delta) % 256
        step == ShlMin(c.build, cur, c.tp.snd_cwnd)
        cwnd == IF delta > 0
                THEN Min(c.tp.snd_cwnd - step, c.tp.snd_cwnd_clamp)
                ELSE c.tp.snd_cwnd
    IN  [c EXCEPT !.tp.snd_cwnd_cnt = cnt - delta * c.tp.snd_cwnd,
                  !.lbbr.cur_cnt = IF delta > 0 THEN cur ELSE @,
                  !.tp.snd_cwnd = cwnd,
                  !.lbbr.mode = IF cwnd <= c.lbbr.prev_cwnd
                                THEN LBBR_INCREASE ELSE @,
                  !.obs.counted = @ + acked,
                  !.obs.switches = IF cwnd <= c.lbbr.prev_cwnd
                                   THEN @ + 1 ELSE @]

\* Lines 264-279: the DECREASE branch.  obs.counted records the addition to
\* snd_cwnd_cnt (line 265), obs.zero_div a divisor of 0 (line 266),
\* obs.switches the assignment to mode (line 278).
lbbr_set_cwnd_decrease(c, acked) ==
    LET cnt == c.tp.snd_cwnd_cnt + acked
        delta == Div(c.build, cnt, c.tp.snd_cwnd)
        cur == (c.lbbr.cur_cnt + delta) % 256
        cwnd == IF delta > 0
                THEN Min(c.tp.snd_cwnd
                         - ShlMin(c.build, cur,
                                  c.tp.snd_cwnd - c.lbbr.prev_cwnd),
                         c.tp.snd_cwnd_clamp)
                ELSE c.tp.snd_cwnd
    IN  IF c.tp.snd_cwnd = 0 /\ DivTraps(c.build)
        THEN [c EXCEPT !.tp.snd_cwnd_cnt = cnt, !.crashed = TRUE,
                       !.obs.counted = @ + acked,
                       !.obs.zero_div = TRUE]
        ELSE [c EXCEPT !.tp.snd_cwnd_cnt = cnt - delta * c.tp.snd_cwnd,
                       !.lbbr.cur_cnt = IF delta > 0 THEN cur ELSE @,
                       !.tp.snd_cwnd = cwnd,
                       !.lbbr.mode = IF cwnd <= c.lbbr.prev_cwnd
                                     THEN LBBR_INCREASE ELSE @,
                       !.obs.counted = @ + acked,
                       !.obs.zero_div = (@ \/ c.tp.snd_cwnd = 0),
                       !.obs.switches = IF cwnd <= c.lbbr.prev_cwnd
                                        THEN @ + 1 ELSE @]

\* Mutant: a sample that acknowledges nothing is not set aside.
lbbr_set_cwnd_noguard(c, rs, acked, bw, gain) ==
    IF ~lbbr_full_bw_reached(c)
    THEN [c EXCEPT !.tp.snd_cwnd = lbbr_target_cwnd(c, bw, lbbr_startup_gain)]
    ELSE Only({
             Only({
                 IF ~c2.crashed /\ c2.lbbr.mode = LBBR_DECREASE
                 THEN lbbr_set_cwnd_decrease(c2, acked)
                 ELSE c2
                 : c2 \in {IF c1.lbbr.mode = LBBR_INCREASE
                           THEN lbbr_set_cwnd_increase(c1, acked, bw)
                           ELSE c1}})
             : c1 \in {lbbr_latch_gains(c)}})

lbbr_set_cwnd(c, rs, acked, bw, gain) ==
    IF acked = 0
    THEN c
    ELSE IF ~lbbr_full_bw_reached(c)
    THEN [c EXCEPT !.tp.snd_cwnd = lbbr_target_cwnd(c, bw, lbbr_startup_gain)]
    ELSE Only({
             Only({
                 IF ~c2.crashed /\ c2.lbbr.mode = LBBR_DECREASE
                 THEN lbbr_set_cwnd_decrease(c2, acked)
                 ELSE c2
                 : c2 \in {IF c1.lbbr.mode = LBBR_INCREASE
                           THEN lbbr_set_cwnd_increase(c1, acked, bw)
                           ELSE c1}})
             : c1 \in {lbbr_latch_gains(c)}})

\* obs.pacing_bw and obs.cwnd_bw record the bandwidth arguments of the two
\* control calls.
lbbr_main(c0, rs) ==
    LET bw == lbbr_max_bw(c0)
        c == ObsCall(c0)
    IN  Only({
            IF c1.crashed THEN c1
            ELSE Only({
                     Only({lbbr_set_cwnd(c3, rs, rs.acked_sacked,
                                         lbbr_max_bw(c3), c3.lbbr.cwnd_gain)
                           : c3 \in {[c2 EXCEPT !.obs.cwnd_bw =
                                                    lbbr_max_bw(c2)]}})
                     : c2 \in {lbbr_set_pacing_rate(
                                   [c1 EXCEPT !.obs.pacing_bw = bw],
                                   bw, c1.lbbr.pacing_gain)}})
            : c1 \in {lbbr_update_model(c, rs)}})

\* ------------------------------------------------------------------------
\* State
\* ------------------------------------------------------------------------
VARIABLES
    lbbr,      \* struct lbbr, the private state of the flow
    tp,        \* the fields of struct tcp_sock the module uses
    sk,        \* the fields of struct sock the module uses
    jiffies,   \* tcp_time_stamp
    crashed,   \* a division trapped: the call never returned
    rs,        \* the rate sample of the latest lbbr_main call
    obs,       \* observations of the latest call and of the run
    calc       \* arguments and result of one call of a rate / window formula

vars == <<lbbr, tp, sk, jiffies, crashed, rs, obs, calc>>

\* The flow as build b sees it.
Ctx(b) == Context(lbbr, tp, sk, jiffies, b, crashed, obs)

\* The flow as the functions that do not depend on the build see it.
Flow == Ctx("x86")

PipeFull == lbbr_full_bw_reached(Flow)

\* ------------------------------------------------------------------------
\* Inputs
\* ------------------------------------------------------------------------
\* One packet per Interval microseconds is bandwidth 8 (in BW_UNIT per usec).
Interval == BW_UNIT \div 8
\* RTT samples in microseconds.  At bandwidth 8, LongRtt gives a unit-gain
\* target of 5 packets (10 at 2x, 4 at 0.8x, 15 at the startup gain) and
\* ShortRtt one of 3.
ShortRtt == 5235 * USEC_PER_MSEC
LongRtt == 2 * ShortRtt
\* sk_max_pacing_rate in bytes per second.
MaxPacingRate == 2 * USEC_PER_MSEC
\* snd_cwnd_clamp of the general specification.
Clamp == TCP_INIT_CWND + 2

\* <<rs->delivered, rs->interval_us>>: no delivery, bandwidth 8, bandwidth
\* 16, and a sample with a zero interval.
NoRate == <<0, Interval>>
Rate8 == <<1, Interval>>
Rate16 == <<2, Interval>>
ZeroInterval == <<1, 0>>

Samples(rates, rtts, ackeds, apps, priors) ==
    {RateSample(r[1], r[2], p, t, a, k) :
        r \in rates, t \in rtts, k \in ackeds, a \in apps, p \in priors}

NoSample == RateSample(0, 1, 0, -1, FALSE, 0)

\* One call of a formula: its name, its arguments, the value the code
\* returns and the value of unbounded arithmetic, all wide.
Calc(fn, bw, min_rtt_us, max_rate, gain, got, want) ==
    [fn |-> fn, bw |-> bw, min_rtt_us |-> min_rtt_us, max_rate |-> max_rate,
     gain |-> gain, got |-> got, want |-> want]

\* No formula has been called.
NoCalc == Calc("none", <<>>, <<>>, <<>>, 0, <<>>, <<>>)

\* starts: <<tcp_min_rtt(tp), tp->srtt_us>> when the flow starts; clamps:
\* snd_cwnd_clamp; pacings: the sk_pacing_rate the host starts the flow with.
FlowWith(starts, clamps, pacings) ==
    /\ \E st \in starts :
          /\ lbbr = lbbr_init(st[1], 0)
          /\ obs = ObsInit(st[1])
          /\ \E cl \in clamps :
                tp = TcpSock(1, Min(TCP_INIT_CWND, cl), 0, cl, st[2])
    /\ \E p \in pacings : sk = Sock(p, MaxPacingRate)
    /\ jiffies = 0
    /\ crashed = FALSE
    /\ rs = NoSample

InitWith(starts, clamps, pacings) ==
    /\ FlowWith(starts, clamps, pacings)
    /\ calc = NoCalc

\* ------------------------------------------------------------------------
\* Observations
\* ------------------------------------------------------------------------
\* The sample found the estimate below 1.25 x the full_bw checkpoint.  c1 is
\* the context after lbbr_update_max_bw.
NoGrowth(c1) ==
    lbbr_max_bw(c1) < MulShr(c1.lbbr.full_bw, lbbr_full_bw_thresh, LBBR_SCALE)

\* App-limited samples are skipped over by stall_run.
Observe(c1, c2, s) ==
    [c2.obs EXCEPT
        !.rtt_floor = IF s.rtt_us >= 0 THEN RttMin(s.rtt_us, @) ELSE @,
        !.stall_run = IF s.is_app_limited THEN @
                      ELSE IF NoGrowth(c1) THEN Min(@ + 1, 3)
                      ELSE 0,
        !.calls = 1]

\* ------------------------------------------------------------------------
\* Actions
\* ------------------------------------------------------------------------
\* The host calls cong_control = lbbr_main with rate sample s, on build b.
Feed(s, b, cap) ==
    /\ ~crashed
    /\ lbbr_round_start(Ctx(b), s) => lbbr.rtt_cnt < MaxRounds
    /\ tp.snd_cwnd_cnt + s.acked_sacked <= cap
    /\ \E c1 \in {lbbr_update_max_bw(Ctx(b), s)},
          c2 \in {lbbr_main(Ctx(b), s)} :
           /\ lbbr' = c2.lbbr
           /\ tp' = c2.tp
           /\ sk' = c2.sk
           /\ crashed' = c2.crashed
           /\ obs' = IF c2.crashed THEN c2.obs ELSE Observe(c1, c2, s)
           /\ rs' = s
    /\ UNCHANGED <<jiffies, calc>>

\* The clock advances.
Tick ==
    /\ ~crashed
    /\ jiffies < MaxJiffies
    /\ jiffies' = jiffies + 1
    /\ UNCHANGED <<lbbr, tp, sk, crashed, rs, obs, calc>>

\* The host's RTT estimator produces its first smoothed RTT.
HostSrtt ==
    /\ ~crashed
    /\ tp.srtt_us = 0
    /\ tp' = [tp EXCEPT !.srtt_us = 8 * LongRtt]
    /\ UNCHANGED <<lbbr, sk, jiffies, crashed, rs, obs, calc>>

\* ------------------------------------------------------------------------
\* The general specification: the window control at bandwidth 8 under
\* every RTT sample and ACK size, on every build.
\* ------------------------------------------------------------------------
Init == InitWith({<<MIN_RTT_UNKNOWN, 0>>, <<LongRtt, 0>>}, {Clamp}, {0})

RateSamples ==
    Samples({Rate8}, {-1, 0, LongRtt}, {0, 1, Clamp}, {FALSE}, {0})

OnRateSample == \E s \in RateSamples, b \in Builds : Feed(s, b, MaxCwndCnt)

Next == OnRateSample

Spec == Init /\ [][Next]_vars

\* ------------------------------------------------------------------------
\* The estimator specification: the bandwidth filter and the full-pipe
\* detector under every kind of rate sample, on every build.  No packet is
\* newly acknowledged, so the window stays where lbbr_init found it.
\* ------------------------------------------------------------------------
ModelInit == InitWith({<<MIN_RTT_UNKNOWN, 0>>}, {Clamp}, {0})

ModelSamples ==
    Samples({NoRate, Rate8, Rate16, ZeroInterval}, {-1}, {0}, BOOLEAN, {0})

ModelSample == \E s \in ModelSamples, b \in Builds : Feed(s, b, MaxCwndCnt)

ModelNext == ModelSample

ModelSpec == ModelInit /\ [][ModelNext]_vars

\* ------------------------------------------------------------------------
\* The RTT specification: the min-RTT tracker under every kind of RTT
\* sample while the clock advances.
\* ------------------------------------------------------------------------
RttSamples ==
    Samples({Rate8, ZeroInterval}, {-1, 0, ShortRtt, LongRtt}, {0}, {FALSE},
            {0})

RttSample == \E s \in RttSamples, b \in Builds : Feed(s, b, MaxCwndCnt)

RttNext == RttSample \/ Tick

RttSpec == Init /\ [][RttNext]_vars

\* ------------------------------------------------------------------------
\* The pacing specification: the pacing rate under a rising and falling
\* bandwidth estimate, with the first smoothed RTT arriving at any point.
\* ------------------------------------------------------------------------
PacingInit == InitWith({<<MIN_RTT_UNKNOWN, 0>>}, {Clamp}, {0, MaxPacingRate})

PacingSamples == Samples({NoRate, Rate8}, {-1}, {0, Clamp}, {FALSE}, {0})

PacingSample == \E s \in PacingSamples : Feed(s, "x86", MaxCwndCnt)

PacingNext == PacingSample \/ HostSrtt

PacingSpec == PacingInit /\ [][PacingNext]_vars

\* ------------------------------------------------------------------------
\* The steady specification: bandwidth 8 and min_rtt LongRtt held, an
\* unending stream of samples with acked > 0, among them stretch ACKs that
\* cover many windows.  The stream never ends: weak fairness of the call.
\* ------------------------------------------------------------------------
StretchAck == 40 * TCP_INIT_CWND
WrapAck == 128 * Clamp
StretchCap == MaxCwndCnt + WrapAck

SteadyInit == InitWith({<<LongRtt, 0>>}, {Clamp}, {0})

SteadySamples ==
    Samples({Rate8}, {LongRtt}, {Clamp, StretchAck, WrapAck}, {FALSE}, {0})

SteadySample == \E s \in SteadySamples, b \in Builds : Feed(s, b, StretchCap)

SteadyNext == SteadySample

SteadySpec == SteadyInit /\ [][SteadyNext]_vars /\ WF_vars(SteadySample)

\* ------------------------------------------------------------------------
\* The cycle specification: bandwidth 8 and min_rtt LongRtt held, every
\* sample acknowledging a full window, under several clamps above the 2x
\* target.  The stream never ends: weak fairness of the call.
\* ------------------------------------------------------------------------
CycleInit ==
    InitWith({<<LongRtt, 0>>},
             {TCP_INIT_CWND + 1, Clamp, 2 * TCP_INIT_CWND, 4 * TCP_INIT_CWND},
             {0})

CycleSample ==
    \E s \in Samples({Rate8}, {-1, LongRtt}, {tp.snd_cwnd}, BOOLEAN, {0}),
       b \in Builds :
        Feed(s, b, StretchCap)

CycleNext == CycleSample

CycleSpec == CycleInit /\ [][CycleNext]_vars /\ WF_vars(CycleSample)

\* ------------------------------------------------------------------------
\* The no-RTT specification: a flow that never gets an RTT sample, started
\* by the host with a window of 5 or of 10 packets, under a rising and
\* falling bandwidth estimate and every ACK size.
\* ------------------------------------------------------------------------
NoRttInit ==
    InitWith({<<MIN_RTT_UNKNOWN, 0>>}, {TCP_INIT_CWND \div 2, Clamp}, {0})

NoRttSamples ==
    Samples({NoRate, Rate8}, {-1}, {0, 1, Clamp}, {FALSE}, {0})

NoRttSample == \E s \in NoRttSamples, b \in Builds : Feed(s, b, MaxCwndCnt)

NoRttNext == NoRttSample

NoRttSpec == NoRttInit /\ [][NoRttNext]_vars

\* ------------------------------------------------------------------------
\* The arithmetic specification: lbbr_target_cwnd and
\* lbbr_bw_to_pacing_rate called with bandwidths from 1 to ~0U (2^-24 to
\* 256 packets per microsecond), min_rtt from 0 to 1000 seconds and unknown,
\* the ceiling ~0U (the default of the host) and 10^9 bytes per second, at
\* the gains the controller uses.
\* ------------------------------------------------------------------------
Gains ==
    {(LBBR_UNIT * 80) \div 100, LBBR_UNIT, 2 * LBBR_UNIT, lbbr_startup_gain}

WideBws ==
    {ToWide(1, 4), ToWide(BW_UNIT \div 8, 4), ToWide(BW_UNIT, 4),
     ToWide(4 * BW_UNIT, 4), ToWide(64 * BW_UNIT, 4), U32_MAX}

WideRtts ==
    {ToWide(0, 4), ToWide(1, 4), ToWide(LongRtt, 4),
     ToWide(1000 * USEC_PER_SEC, 4), U32_MAX}

WideMaxRates == {ToWide(1000 * USEC_PER_SEC, 4), U32_MAX}

WideInit ==
    /\ FlowWith({<<MIN_RTT_UNKNOWN, 0>>}, {Clamp}, {0})
    /\ \E bw \in WideBws, t \in WideRtts, m \in WideMaxRates :
           calc = Calc("none", bw, t, m, 0, <<>>, <<>>)

TargetCwndCall ==
    /\ \E g \in Gains :
           calc' = [calc EXCEPT
                       !.fn = "lbbr_target_cwnd",
                       !.gain = g,
                       !.got = WCast(lbbr_target_cwnd_u64(calc.bw,
                                         calc.min_rtt_us, g), WideLen),
                       !.want = ExactTargetCwnd(calc.bw, calc.min_rtt_us, g)]
    /\ UNCHANGED <<lbbr, tp, sk, jiffies, crashed, rs, obs>>

PacingRateCall ==
    /\ \E g \in Gains :
           calc' = [calc EXCEPT
                       !.fn = "lbbr_bw_to_pacing_rate",
                       !.gain = g,
                       !.got = WCast(lbbr_bw_to_pacing_rate_u64(calc.bw, g,
                                         calc.max_rate), WideLen),
                       !.want = ExactRate(calc.bw, g)]
    /\ UNCHANGED <<lbbr, tp, sk, jiffies, crashed, rs, obs>>

WideNext == TargetCwndCall \/ PacingRateCall

WideSpec == WideInit /\ [][WideNext]_vars

\* ------------------------------------------------------------------------
\* Properties
\* ------------------------------------------------------------------------
\* The 2x unit-gain target of the state: lbbr_target_cwnd at the current
\* bandwidth estimate and min_rtt.
UpperCwnd == lbbr_target_cwnd(Flow, lbbr_max_bw(Flow), 2 * LBBR_UNIT)

\* The unit-gain target and the 0.8x target (the floor of DECREASE).
TargetCwnd == lbbr_target_cwnd(Flow, lbbr_max_bw(Flow), LBBR_UNIT)
FloorCwnd ==
    lbbr_target_cwnd(Flow, lbbr_max_bw(Flow), (LBBR_UNIT * 80) \div 100)

\* C1: after every call of lbbr_main, in every phase, snd_cwnd is at most
\* snd_cwnd_clamp.  Refuted: line 232 (the branch taken before the pipe is
\* full) stores lbbr_target_cwnd(bw, lbbr_startup_gain) without applying the
\* clamp.
WindowCeiling == tp.snd_cwnd <= tp.snd_cwnd_clamp

\* C2: a rate sample whose interval is 0 is handled without dividing by
\* zero and leaves max_bw and the windowed-max filter as they were.
\* Refuted: line 294 divides by rs->interval_us unguarded; where the division
\* traps the call never returns, where it yields 0 the sample is filtered
\* and averaged as a bandwidth of 0.
ZeroIntervalIgnored ==
    [][rs'.interval_us = 0
       => (~crashed' /\ lbbr'.max_bw = lbbr.max_bw /\ lbbr'.bw = lbbr.bw)]_vars

\* C3: an app-limited sample never lowers the estimate lbbr_max_bw returns.
\* Refuted: lines 300-303 average every sample into max_bw; is_app_limited
\* only guards the windowed-max filter, which lbbr_max_bw does not read.
AppLimitedOnlyRaises ==
    [][rs'.is_app_limited => lbbr'.max_bw >= lbbr.max_bw]_vars

\* C4: after every call of lbbr_main sk_pacing_rate is at most
\* sk_max_pacing_rate, whether seeded from cwnd / srtt or set from the
\* bandwidth estimate, when the flow starts with a rate not above it.
PacingCeiling == sk.sk_pacing_rate <= sk.sk_max_pacing_rate

\* The pipe is full, the rate has been seeded from the smoothed RTT and the
\* latest call has set it from bandwidth 8 at the startup gain, which is
\* above the ceiling.
PacingAtCeiling ==
    /\ PipeFull
    /\ lbbr.has_seen_rtt = 1
    /\ obs.pacing_bw = lbbr_max_bw(Flow)
    /\ lbbr_rate_bytes_per_sec(Flow, obs.pacing_bw, lbbr.pacing_gain)
           > sk.sk_max_pacing_rate
    /\ sk.sk_pacing_rate = sk.sk_max_pacing_rate

\* C5: in every call of lbbr_main the bandwidth passed to the pacing-rate
\* calculation is the estimate after lbbr_update_model, the value the window
\* calculation gets.  Refuted: line 331 reads the estimate before the update.
SameEstimate == obs.calls = 1 => obs.pacing_bw = obs.cwnd_bw

\* C6: once three non-app-limited samples in a row (app-limited ones
\* between them set aside) each found the estimate below 1.25 x full_bw,
\* lbbr_full_bw_reached is true; once true it stays true whatever samples
\* follow; full_bw_count never exceeds 3, so it never wraps.
FullPipeLatch ==
    /\ [](obs.stall_run >= lbbr_full_bw_count => PipeFull)
    /\ [][PipeFull => PipeFull']_vars
    /\ [](lbbr.full_bw_count <= lbbr_full_bw_count)

\* The pipe is full and the latest sample, not app-limited, showed growth
\* above 1.25 x the checkpoint.
FullPipeKept ==
    /\ PipeFull /\ ~crashed
    /\ ~rs.is_app_limited
    /\ obs.calls = 1
    /\ obs.stall_run = 0

\* C7: min_rtt_us after each sample is the minimum of the value seeded by
\* lbbr_init and of the valid RTT samples so far; it never increases; a
\* sample without an RTT leaves min_rtt_us and min_rtt_stamp unchanged.
MinRttTracks ==
    /\ [](lbbr.min_rtt_us = obs.rtt_floor)
    /\ [][/\ RttLe(lbbr'.min_rtt_us, lbbr.min_rtt_us)
          /\ rs'.rtt_us < 0 =>
                 /\ lbbr'.min_rtt_us = lbbr.min_rtt_us
                 /\ lbbr'.min_rtt_stamp = lbbr.min_rtt_stamp]_vars

\* A larger RTT sample arrived after the clock had advanced past the stamp
\* of a smaller one, and both the minimum and its stamp were kept.
MinRttKept ==
    /\ ~crashed
    /\ lbbr.min_rtt_us = ShortRtt
    /\ rs.rtt_us = LongRtt
    /\ lbbr.min_rtt_stamp < jiffies

\* C8, as stated: after every call with acked > 0 that leaves mode =
\* INCREASE, also before the pipe is full, snd_cwnd is at most the 2x
\* unit-gain target of the estimate and min_rtt after the sample.
UpperBoundAlways ==
    (obs.calls = 1 /\ ~crashed /\ rs.acked_sacked > 0
        /\ lbbr.mode = LBBR_INCREASE)
    => tp.snd_cwnd <= UpperCwnd

\* C8, corrected: every call with acked > 0 that finds the pipe full after
\* its model update, starts in INCREASE and leaves mode = INCREASE leaves
\* snd_cwnd at most the 2x unit-gain target of the estimate and min_rtt
\* after the sample.
UpperBoundInIncrease ==
    [][(rs'.acked_sacked > 0 /\ ~crashed' /\ PipeFull'
          /\ lbbr.mode = LBBR_INCREASE /\ lbbr'.mode = LBBR_INCREASE)
       => tp'.snd_cwnd <= UpperCwnd']_vars

\* The window has grown from the floor of a DECREASE phase to the 2x target.
UpperBoundReached ==
    /\ PipeFull /\ ~crashed
    /\ lbbr.mode = LBBR_INCREASE
    /\ rs.acked_sacked > 0
    /\ lbbr.prev_cwnd > 0
    /\ tp.snd_cwnd > lbbr.prev_cwnd
    /\ tp.snd_cwnd = UpperCwnd

\* C9: with the estimate and min_rtt steady and an unending stream of
\* samples with acked > 0, DECREASE always ends: mode returns to INCREASE,
\* for every value of cur_cnt.  Refuted: line 271 shifts 1 by cur_cnt, an
\* 8-bit counter that stretch ACKs take to 32 and above, which is undefined;
\* where the shift yields 0 the window stops moving.
DecreaseTerminates ==
    [](lbbr.mode = LBBR_DECREASE => <>(lbbr.mode = LBBR_INCREASE))

\* C10: at target 5 (10 at 2x, 4 at 0.8x), clamp above 10, pipe full and
\* full-window ACKs, mode becomes DECREASE again and again, each time
\* entered from a window above 10 (from 11 whenever the window was within
\* the 2x target before the call) with prev_cwnd = 4, and becomes INCREASE
\* again and again, each time with the window at the floor 4.
SteadyCycle ==
    /\ [](PipeFull => TargetCwnd = 5 /\ UpperCwnd = 10 /\ FloorCwnd = 4)
    /\ [](PipeFull => <>(lbbr.mode = LBBR_DECREASE))
    /\ [](PipeFull => <>(lbbr.mode = LBBR_INCREASE /\ tp.snd_cwnd = 4))
    /\ [][(lbbr.mode = LBBR_INCREASE /\ lbbr'.mode = LBBR_DECREASE)
          => /\ obs'.entry_cwnd > 10
             /\ lbbr'.prev_cwnd = 4
             /\ tp.snd_cwnd <= 10 => obs'.entry_cwnd = 11]_vars
    /\ [][(lbbr.mode = LBBR_DECREASE /\ lbbr'.mode = LBBR_INCREASE)
          => tp'.snd_cwnd = 4]_vars

\* A DECREASE phase entered from 11 has brought the window to the floor.
CycleClosed ==
    /\ PipeFull
    /\ lbbr.mode = LBBR_INCREASE
    /\ obs.entry_cwnd = 11
    /\ lbbr.prev_cwnd = 4
    /\ tp.snd_cwnd = 4

\* C11: a call of lbbr_main whose sample has acked = 0 leaves snd_cwnd,
\* snd_cwnd_cnt, cwnd_gain, pacing_gain, mode, prev_cwnd, cur_cnt and
\* ssthresh unchanged, before the pipe is full, in INCREASE and in DECREASE.
ZeroAckNoop ==
    [][rs'.acked_sacked = 0
       => /\ tp'.snd_cwnd = tp.snd_cwnd
          /\ tp'.snd_cwnd_cnt = tp.snd_cwnd_cnt
          /\ lbbr'.cwnd_gain = lbbr.cwnd_gain
          /\ lbbr'.pacing_gain = lbbr.pacing_gain
          /\ lbbr'.mode = lbbr.mode
          /\ lbbr'.prev_cwnd = lbbr.prev_cwnd
          /\ lbbr'.cur_cnt = lbbr.cur_cnt
          /\ lbbr'.ssthresh = lbbr.ssthresh]_vars

\* A sample with acked = 0 has been processed in the middle of a DECREASE
\* phase, the window still above the floor.
ZeroAckInDecrease ==
    /\ obs.calls = 1 /\ ~crashed
    /\ rs.acked_sacked = 0
    /\ PipeFull
    /\ lbbr.mode = LBBR_DECREASE
    /\ lbbr.cur_cnt > 0
    /\ tp.snd_cwnd > lbbr.prev_cwnd

\* The gains the controller passes to lbbr_target_cwnd (0.8x, 1x, 2x and
\* the startup gain) with the ends of the 10-bit gain field, and bandwidths
\* from 0 to 16 packets per microsecond.
ProbeGains ==
    {0, (LBBR_UNIT * 80) \div 100, LBBR_UNIT, 2 * LBBR_UNIT, lbbr_startup_gain,
     4 * LBBR_UNIT - 1}
ProbeBws == {0, 1, BW_UNIT \div 8, BW_UNIT, 16 * BW_UNIT - 1}

\* C12: while min_rtt_us holds the unknown value ~0U, lbbr_target_cwnd is
\* TCP_INIT_CWND for every bandwidth and every gain, and a sample with
\* acked > 0 processed before the pipe is full (the first sample among them)
\* sets the window to TCP_INIT_CWND.
NoRttDefault ==
    /\ [](lbbr.min_rtt_us = MIN_RTT_UNKNOWN
            => \A bw \in ProbeBws \cup {lbbr_max_bw(Flow)}, g \in ProbeGains :
                   lbbr_target_cwnd(Flow, bw, g) = TCP_INIT_CWND)
    /\ [][(lbbr'.min_rtt_us = MIN_RTT_UNKNOWN /\ rs'.acked_sacked > 0
            /\ ~PipeFull' /\ ~crashed')
          => tp'.snd_cwnd = TCP_INIT_CWND]_vars

\* A flow started with a window of 5 has had it set to TCP_INIT_CWND by a
\* sample without an RTT, at a non-zero bandwidth estimate.
NoRttWindowSet ==
    /\ obs.calls = 1 /\ ~crashed
    /\ lbbr.min_rtt_us = MIN_RTT_UNKNOWN
    /\ rs.acked_sacked > 0 /\ rs.rtt_us < 0
    /\ ~PipeFull
    /\ lbbr_max_bw(Flow) > 0
    /\ tp.snd_cwnd_clamp = TCP_INIT_CWND \div 2
    /\ tp.snd_cwnd = TCP_INIT_CWND

\* C13: a call of lbbr_main assigns mode at most once: a call that switches
\* INCREASE to DECREASE does not also shrink the window and switch back to
\* INCREASE.  Refuted: the DECREASE block (line 264) tests mode again after
\* the INCREASE block has set it, so the call that enters DECREASE also takes
\* a DECREASE step and, once that step reaches prev_cwnd, returns to
\* INCREASE.
OneSwitchPerCall == obs.switches <= 1

\* C14: ssthresh and cwnd_gain keep their lbbr_init values until the first
\* sample with acked > 0 that is processed with the pipe full; that sample
\* sets ssthresh to max(cwnd / 2, 2), cwnd being the window it found, and
\* cwnd_gain to 2 * LBBR_UNIT; every later sample leaves both unchanged, so
\* ssthresh changes at most once in the life of the flow.
LatchOnce ==
    /\ [](lbbr.ssthresh = TCP_INFINITE_SSTHRESH
            => lbbr.cwnd_gain = lbbr_startup_gain)
    /\ [][(lbbr.ssthresh = TCP_INFINITE_SSTHRESH
             /\ (rs'.acked_sacked = 0 \/ ~PipeFull'))
          => lbbr'.ssthresh = TCP_INFINITE_SSTHRESH]_vars
    /\ [][(lbbr.ssthresh = TCP_INFINITE_SSTHRESH
             /\ rs'.acked_sacked > 0 /\ PipeFull')
          => /\ lbbr'.ssthresh = Max(tp.snd_cwnd \div 2, 2)
             /\ lbbr'.cwnd_gain = 2 * LBBR_UNIT]_vars
    /\ [][lbbr.ssthresh # TCP_INFINITE_SSTHRESH
          => /\ lbbr'.ssthresh = lbbr.ssthresh
             /\ lbbr'.cwnd_gain = lbbr.cwnd_gain]_vars

\* The latch was taken at a larger window than the one a later sample with
\* acked > 0 has now left, and ssthresh still holds the latched value.
LatchKept ==
    /\ obs.calls = 1 /\ ~crashed
    /\ PipeFull
    /\ rs.acked_sacked > 0
    /\ lbbr.cwnd_gain = 2 * LBBR_UNIT
    /\ lbbr.ssthresh # TCP_INFINITE_SSTHRESH
    /\ lbbr.ssthresh > Max(tp.snd_cwnd \div 2, 2)
    /\ tp.snd_cwnd = lbbr.prev_cwnd

\* C15: in every state a call leaves with mode = DECREASE snd_cwnd is above
\* prev_cwnd, and every call that takes a DECREASE step (it found mode =
\* DECREASE, or it entered DECREASE itself) leaves snd_cwnd at or above
\* prev_cwnd; snd_cwnd - prev_cwnd is never negative at line 272.
FloorKept ==
    /\ [](lbbr.mode = LBBR_DECREASE => tp.snd_cwnd > lbbr.prev_cwnd)
    /\ [][(rs'.acked_sacked > 0 /\ ~crashed'
             /\ (lbbr.mode = LBBR_DECREASE \/ obs'.switches > 0))
          => tp'.snd_cwnd >= lbbr'.prev_cwnd]_vars

\* A DECREASE step whose 1 << cur_cnt was more than the whole room the
\* phase started with has stopped the window exactly at prev_cwnd.
FloorExact ==
    /\ obs.calls = 1 /\ ~crashed
    /\ PipeFull
    /\ rs.acked_sacked > 0
    /\ lbbr.mode = LBBR_INCREASE
    /\ lbbr.prev_cwnd > 0
    /\ tp.snd_cwnd = lbbr.prev_cwnd
    /\ lbbr.cur_cnt > 0 /\ lbbr.cur_cnt < 31
    /\ Pow2(lbbr.cur_cnt) > obs.entry_cwnd - lbbr.prev_cwnd

\* C16: a call of lbbr_main that finds has_seen_rtt set and leaves the pipe
\* not full after its model update leaves sk_pacing_rate at or above its
\* value before the call; has_seen_rtt, once set, stays set, and the rate is
\* seeded from cwnd / srtt at most once in the life of the flow.
PacingNotLowered ==
    /\ [][(lbbr.has_seen_rtt = 1 /\ ~PipeFull' /\ ~crashed')
          => sk'.sk_pacing_rate >= sk.sk_pacing_rate]_vars
    /\ [][lbbr.has_seen_rtt = 1 => lbbr'.has_seen_rtt = 1]_vars
    /\ [](obs.seeds <= 1)
    /\ [](obs.seeds = lbbr.has_seen_rtt)

\* The rate was seeded by an earlier call, the pipe is not full, the
\* estimate has fallen and the latest call computed from it a rate below
\* the one in force and kept the one in force.
PacingKept ==
    /\ obs.calls = 1 /\ ~crashed
    /\ obs.seeds = 1
    /\ obs.seen_before = 1
    /\ ~PipeFull
    /\ obs.pacing_bw > 0 /\ obs.pacing_bw < lbbr.full_bw
    /\ lbbr_bw_to_pacing_rate(Flow, obs.pacing_bw, lbbr.pacing_gain)
           < sk.sk_pacing_rate

\* C17: for every u32 bw, every min_rtt_us other than ~0U and each of the
\* gains 0.8x, 1x, 2x and startup, lbbr_target_cwnd returns
\* ceil(bw * min_rtt * gain / LBBR_UNIT / BW_UNIT) of unbounded arithmetic.
\* Refuted: w * gain wraps at 2^64 (line 167), and the bits shifted out by
\* >> LBBR_SCALE are lost before the rounding up.
TargetCwndIsExact ==
    (calc.fn = "lbbr_target_cwnd" /\ calc.min_rtt_us # U32_MAX)
    => calc.got = calc.want

\* C18: whenever bw * mtu * gain / LBBR_UNIT * USEC_PER_SEC / BW_UNIT of
\* unbounded arithmetic is at or above sk_max_pacing_rate,
\* lbbr_bw_to_pacing_rate returns sk_max_pacing_rate.  Refuted:
\* lbbr_rate_bytes_per_sec returns u32 (line 112), so a rate of 2^32 bytes
\* per second or more is reduced modulo 2^32 before min_t compares it.
PacingSaturates ==
    (calc.fn = "lbbr_bw_to_pacing_rate"
        /\ ~WLess(calc.want, WCast(calc.max_rate, WideLen)))
    => calc.got = WCast(calc.max_rate, WideLen)

\* C19: snd_cwnd is at least 1 whenever lbbr_set_cwnd divides snd_cwnd_cnt
\* by it (lines 250 and 266).  Refuted: an RTT sample of 0 makes min_rtt_us
\* 0 and every target 0; line 232 stores the target 0 in snd_cwnd, and the
\* first sample with the pipe full divides by it.
NonZeroDivisor == ~obs.zero_div

\* C20: every call with acked > 0 that finds the pipe full adds exactly
\* acked to snd_cwnd_cnt.  Refuted: the call that switches INCREASE to
\* DECREASE adds acked at line 249 and again at line 265.
CountedOnce ==
    (obs.calls = 1 /\ ~crashed /\ PipeFull /\ rs.acked_sacked > 0)
    => obs.counted = rs.acked_sacked

====
